---- MODULE Spec2Model ----
(***************************************************************************)
(* A model of osgEarth's TerrainEngineNode (src/osgEarth/                  *)
(* TerrainEngineNode.cpp): its setup against a Map, the map callback       *)
(* proxy, map-model change handling, redraw coalescing, the requirement    *)
(* flags, the effect list, the CreateTileModelCallback registry under its  *)
(* reader/writer lock, the tile-patch and tile-node callback registries    *)
(* and requestRedraw called from several threads.                          *)
(*                                                                         *)
(* The Map, its layers and the Terrain facade are collaborators whose      *)
(* code is not in the file; they are modelled by the calls the engine      *)
(* makes on them.                                                          *)
(***************************************************************************)
EXTENDS Integers, Sequences, FiniteSets, TLC

\* ------------------------------------------------------------------------
\* Values

NULL == "NULL"
NONE == "NONE"

TheMap == "map"
ImageLayers == {"img1", "img2"}
ElevationLayers == {"elev1"}
OtherLayers == {"model1"}

Effects == {"fx1", "fx2"}
Callbacks == {"cb1", "cb2"}
Workers == {"w1", "w2"}
Registrars == {"r1"}
\* The threads that can be inside add/removeCreateTileModelCallback: a
\* registrar, or a createTileModel caller whose callback makes the call.
Threads == Registrars \cup Workers
PatchCallbacks == {"pc1", "pc2"}
TileNodeCallbacks == {"nc1"}
PatchThreads == {"p1", "p2"}
Redrawers == {"t1", "t2", "t3"}

INIT_NONE == "INIT_NONE"
INIT_POSTINIT_COMPLETE == "INIT_POSTINIT_COMPLETE"

ADD_LAYER == "ADD_LAYER"
REMOVE_LAYER == "REMOVE_LAYER"
MOVE_LAYER == "MOVE_LAYER"
Actions == {ADD_LAYER, REMOVE_LAYER, MOVE_LAYER}

EVENT_VISITOR == "EVENT_VISITOR"
UPDATE_VISITOR == "UPDATE_VISITOR"
CULL_VISITOR == "CULL_VISITOR"
VisitorTypes == {EVENT_VISITOR, UPDATE_VISITOR, CULL_VISITOR}

\* Bounds of the model
MaxSetMap == 2
MaxDirty == 3
MaxEffects == 3
MaxCallbacks == 2
MaxPatchCallbacks == 3

\* Controllers are named by the successful setMap call that created them.
Controllers == 1..MaxSetMap

VARIABLES
    \* --- the engine node
    alive,                      \* constructed and not yet destroyed
    crashed,                    \* a null pointer was dereferenced, or memory corrupted
    fault,                      \* the pointer or container concerned
    _map,
    _initStage,
    _terrainInterface,          \* 0 = null, n = created by the n-th setMap
    _textureResourceTracker,
    _tileModelFactory,
    _imageLayerController,
    ellipsoid,                  \* the CoordinateSystemNode's ellipsoid model
    _dirtyCount,
    _requireElevationTextures,
    _requireNormalTextures,
    _requireParentTextures,
    effects_,
    _createTileModelCallbacks,
    readers,                    \* _createTileModelCallbacksMutex: shared holders
    writer,                     \*                                 exclusive holder
    \* --- the map and its layers
    mapProfile,                 \* the map has a profile
    mapGeocentric,
    mapLayers,                  \* the image layers the map holds
    mapCallbacks,               \* number of proxies registered on the map
    layerCallbacks,             \* per image layer, per controller: subscriptions
    pending,                    \* the notification the map is firing
    \* --- threads
    wpc,                        \* createTileModel callers
    rpc,                        \* add/removeCreateTileModelCallback callers
    ppc,                        \* tile-patch / tile-node registry callers
    qpc,                        \* concurrent requestRedraw callers
    \* --- the tile-patch and tile-node callback registries
    _tilePatchCallbacks,
    _tileNodeCallbacks,
    _tileNodeCallbacksMutex,    \* the thread holding it, or NONE
    \* --- observation
    redrawSignals,              \* outward redraw signals since the last event traversal
    redrawCalls,                \* requestRedraw calls since the last event traversal
    elevationNotices,           \* notifyMapElevationChanged calls since then
    forwarded,                  \* the engine handler the last proxy call reached
    lastSetMap,                 \* the last setMap call: its argument, and whether
                                \* it changed anything setMap establishes
    hookCalls,                  \* the effect hooks the last effect operation called
    stateDirtied,               \* the dirtyState() calls it made
    lastEffectOp,               \* the last effect operation and the list before it
    prevEffectOp                \* the effect operation before that one

setupVars == <<_map, _initStage, _terrainInterface, _textureResourceTracker,
               _tileModelFactory, _imageLayerController>>
flagVars == <<_requireElevationTextures, _requireNormalTextures, _requireParentTextures>>
redrawVars == <<_dirtyCount, redrawSignals, redrawCalls>>
effectVars == <<effects_, hookCalls, stateDirtied, lastEffectOp, prevEffectOp>>
tileVars == <<_createTileModelCallbacks, readers, writer, wpc, rpc>>
mapVars == <<mapProfile, mapGeocentric, mapLayers>>
deliveryVars == <<forwarded>>
patchVars == <<_tilePatchCallbacks, _tileNodeCallbacks, _tileNodeCallbacksMutex, ppc>>

vars == <<alive, crashed, fault, setupVars, ellipsoid, flagVars, redrawVars, effectVars,
          tileVars, mapVars, mapCallbacks, layerCallbacks, pending,
          elevationNotices, deliveryVars, lastSetMap, patchVars, qpc>>

\* What setMap establishes, on the node and on the map.
Setup == <<_map, _initStage, _terrainInterface, _textureResourceTracker,
           _tileModelFactory, _imageLayerController, mapCallbacks, layerCallbacks>>

\* ------------------------------------------------------------------------
\* Collaborators: image layers and map-model changes

\* ImageLayer::addCallback appends the callback to the layer's list.
addCallback(lc, layer, ctl) ==
    IF ctl \in Controllers
    THEN [lc EXCEPT ![layer][ctl] = @ + 1]
    ELSE lc

\* ImageLayer::removeCallback erases the first entry equal to the callback.
removeCallback(lc, layer, ctl) ==
    IF ctl \in Controllers /\ lc[layer][ctl] > 0
    THEN [lc EXCEPT ![layer][ctl] = @ - 1]
    ELSE lc

\* MapModelChange: getImageLayer() and getElevationLayer() cast the one layer
\* the change carries.
MapModelChange(action, layer) ==
    [action |-> action,
     imageLayer |-> IF layer \in ImageLayers THEN layer ELSE NULL,
     elevationLayer |-> IF layer \in ElevationLayers THEN layer ELSE NULL]

NoChange == [action |-> NONE, imageLayer |-> NULL, elevationLayer |-> NULL]

NoPending == [kind |-> NONE]
NoSetMap == [map |-> NONE]
NoEffectOp == [op |-> NONE]

\* A thread outside createTileModel; inside it, the thread's position, the
\* factory's result, the iterator, the registry as it was when the call
\* began (kept while the call is in flight) and the callbacks it has invoked.
WorkerIdle == [pc |-> "idle", result |-> NONE, idx |-> 0,
               entryReg |-> <<>>, fired |-> <<>>]
RegistrarIdle == [pc |-> "idle", op |-> NONE, callback |-> NONE]

\* A thread outside the tile-patch and tile-node registry operations; inside
\* one, the operation, its argument, whether another thread used the
\* registry meanwhile, and the iterator.
PatchIdle == [pc |-> "idle", op |-> NONE, cb |-> NONE, raced |-> FALSE, idx |-> 0]

\* A thread outside requestRedraw; inside it, the counter value it read.
RedrawIdle == [pc |-> "idle", local |-> 0]

\* ------------------------------------------------------------------------
\* Init: the state after TerrainEngineNode's constructor; the map exists,
\* with or without a profile and without layers yet.

Init ==
    /\ alive = TRUE
    /\ crashed = FALSE
    /\ fault = NONE
    /\ _map = NULL
    /\ _initStage = INIT_NONE
    /\ _terrainInterface = 0
    /\ _textureResourceTracker = 0
    /\ _tileModelFactory = 0
    /\ _imageLayerController = 0
    /\ ellipsoid = NULL
    /\ _dirtyCount = 0
    /\ _requireElevationTextures = FALSE
    /\ _requireNormalTextures = FALSE
    /\ _requireParentTextures = FALSE
    /\ effects_ = <<>>
    /\ _createTileModelCallbacks = <<>>
    /\ readers = {}
    /\ writer = NONE
    /\ mapProfile \in BOOLEAN
    /\ mapGeocentric \in BOOLEAN
    /\ mapLayers = {}
    /\ mapCallbacks = 0
    /\ layerCallbacks = [l \in ImageLayers |-> [c \in Controllers |-> 0]]
    /\ pending = NoPending
    /\ wpc = [w \in Workers |-> WorkerIdle]
    /\ rpc = [r \in Threads |-> RegistrarIdle]
    /\ ppc = [t \in PatchThreads |-> PatchIdle]
    /\ qpc = [t \in Redrawers |-> RedrawIdle]
    /\ _tilePatchCallbacks = <<>>
    /\ _tileNodeCallbacks = <<>>
    /\ _tileNodeCallbacksMutex = NONE
    /\ redrawSignals = 0
    /\ redrawCalls = 0
    /\ elevationNotices = 0
    /\ forwarded = NONE
    /\ lastSetMap = NoSetMap
    /\ hookCalls = <<>>
    /\ stateDirtied = 0
    /\ lastEffectOp = NoEffectOp
    /\ prevEffectOp = NoEffectOp

\* The thread that drives the scene graph and the map is between two calls.
MainIdle == alive /\ ~crashed /\ pending = NoPending

\* ------------------------------------------------------------------------
\* Redraw requests and requirement flags

\* Mutant: the counter is incremented before it is compared with 0.
requestRedraw_PreIncrement ==
    /\ _dirtyCount' = _dirtyCount + 1
    /\ redrawSignals' = IF 0 = _dirtyCount + 1 THEN redrawSignals + 1 ELSE redrawSignals
    /\ redrawCalls' = redrawCalls + 1

requestRedraw ==
    /\ _dirtyCount' = _dirtyCount + 1
    /\ redrawSignals' = IF 0 = _dirtyCount THEN redrawSignals + 1 ELSE redrawSignals
    /\ redrawCalls' = redrawCalls + 1

dirtyTerrain == requestRedraw

RequestRedraw ==
    /\ MainIdle
    /\ _dirtyCount < MaxDirty
    /\ requestRedraw
    /\ UNCHANGED <<patchVars, qpc, alive, crashed, fault, setupVars, ellipsoid, flagVars, effectVars,
                   tileVars, mapVars, mapCallbacks, layerCallbacks, pending,
                   elevationNotices, deliveryVars, lastSetMap>>

DirtyTerrain ==
    /\ MainIdle
    /\ _dirtyCount < MaxDirty
    /\ dirtyTerrain
    /\ UNCHANGED <<patchVars, qpc, alive, crashed, fault, setupVars, ellipsoid, flagVars, effectVars,
                   tileVars, mapVars, mapCallbacks, layerCallbacks, pending,
                   elevationNotices, deliveryVars, lastSetMap>>

RequireNormalTextures ==
    /\ MainIdle
    /\ _dirtyCount < MaxDirty
    /\ _requireNormalTextures' = TRUE
    /\ dirtyTerrain
    /\ UNCHANGED <<patchVars, qpc, alive, crashed, fault, setupVars, ellipsoid, _requireElevationTextures,
                   _requireParentTextures, effectVars,
                   tileVars, mapVars, mapCallbacks, layerCallbacks, pending,
                   elevationNotices, deliveryVars, lastSetMap>>

RequireElevationTextures ==
    /\ MainIdle
    /\ _dirtyCount < MaxDirty
    /\ _requireElevationTextures' = TRUE
    /\ dirtyTerrain
    /\ UNCHANGED <<patchVars, qpc, alive, crashed, fault, setupVars, ellipsoid, _requireNormalTextures,
                   _requireParentTextures, effectVars,
                   tileVars, mapVars, mapCallbacks, layerCallbacks, pending,
                   elevationNotices, deliveryVars, lastSetMap>>

RequireParentTextures ==
    /\ MainIdle
    /\ _dirtyCount < MaxDirty
    /\ _requireParentTextures' = TRUE
    /\ dirtyTerrain
    /\ UNCHANGED <<patchVars, qpc, alive, crashed, fault, setupVars, ellipsoid, _requireNormalTextures,
                   _requireElevationTextures, effectVars,
                   tileVars, mapVars, mapCallbacks, layerCallbacks, pending,
                   elevationNotices, deliveryVars, lastSetMap>>

\* requestRedraw called from several threads. "0 == _dirtyCount++" on the
\* plain int is a load, a store of the loaded value plus one and a test of
\* the loaded value; nothing orders the loads and stores of different threads
\* or of the event traversal.

\* Line 179: the counter is loaded.
RequestRedrawRead(t) ==
    /\ alive /\ ~crashed
    /\ qpc[t].pc = "idle"
    /\ _dirtyCount < MaxDirty
    /\ qpc' = [qpc EXCEPT ![t] = [pc |-> "read", local |-> _dirtyCount]]
    /\ UNCHANGED <<patchVars, alive, crashed, fault, setupVars, ellipsoid, flagVars,
                   redrawVars, effectVars, tileVars, mapVars, mapCallbacks,
                   layerCallbacks, pending, elevationNotices, deliveryVars, lastSetMap>>

\* Line 179: the loaded value plus one is stored.
RequestRedrawWrite(t) ==
    /\ ~crashed
    /\ qpc[t].pc = "read"
    /\ _dirtyCount' = qpc[t].local + 1
    /\ qpc' = [qpc EXCEPT ![t] = [@ EXCEPT !.pc = "wrote"]]
    /\ UNCHANGED <<patchVars, alive, crashed, fault, setupVars, ellipsoid, flagVars,
                   redrawSignals, redrawCalls, effectVars, tileVars, mapVars,
                   mapCallbacks, layerCallbacks, pending, elevationNotices,
                   deliveryVars, lastSetMap>>

\* Lines 179-185: the views are notified when the loaded value was 0, and
\* the call returns.
RequestRedrawSignal(t) ==
    /\ ~crashed
    /\ qpc[t].pc = "wrote"
    /\ redrawSignals' = IF 0 = qpc[t].local THEN redrawSignals + 1 ELSE redrawSignals
    /\ redrawCalls' = redrawCalls + 1
    /\ qpc' = [qpc EXCEPT ![t] = RedrawIdle]
    /\ UNCHANGED <<patchVars, alive, crashed, fault, setupVars, ellipsoid, flagVars,
                   _dirtyCount, effectVars, tileVars, mapVars,
                   mapCallbacks, layerCallbacks, pending, elevationNotices,
                   deliveryVars, lastSetMap>>

\* ------------------------------------------------------------------------
\* Traversals

\* Mutant: the event traversal clears the requirement flags with the counter.
Traverse_ResetsFlags(visitorType) ==
    /\ MainIdle
    /\ IF visitorType = EVENT_VISITOR
       THEN /\ _dirtyCount' = 0
            /\ redrawSignals' = 0
            /\ redrawCalls' = 0
            /\ elevationNotices' = 0
            /\ _requireElevationTextures' = FALSE
            /\ _requireNormalTextures' = FALSE
            /\ _requireParentTextures' = FALSE
            /\ UNCHANGED <<crashed, fault>>
       ELSE IF visitorType = UPDATE_VISITOR
       THEN /\ crashed' = (_terrainInterface = 0)
            /\ fault' = IF _terrainInterface = 0 THEN "_terrainInterface" ELSE fault
            /\ UNCHANGED <<redrawVars, elevationNotices, flagVars>>
       ELSE UNCHANGED <<crashed, fault, redrawVars, elevationNotices, flagVars>>
    /\ UNCHANGED <<patchVars, qpc, alive, setupVars, ellipsoid, effectVars,
                   tileVars, mapVars, mapCallbacks, layerCallbacks, pending,
                   deliveryVars, lastSetMap>>

Traverse(visitorType) ==
    /\ MainIdle
    /\ IF visitorType = EVENT_VISITOR
       THEN /\ _dirtyCount' = 0
            /\ redrawSignals' = 0
            /\ redrawCalls' = 0
            /\ elevationNotices' = 0
            /\ UNCHANGED <<crashed, fault>>
       ELSE IF visitorType = UPDATE_VISITOR
       THEN /\ crashed' = (_terrainInterface = 0)
            /\ fault' = IF _terrainInterface = 0 THEN "_terrainInterface" ELSE fault
            /\ UNCHANGED <<redrawVars, elevationNotices>>
       ELSE UNCHANGED <<crashed, fault, redrawVars, elevationNotices>>
    /\ UNCHANGED <<patchVars, qpc, alive, setupVars, ellipsoid, flagVars, effectVars,
                   tileVars, mapVars, mapCallbacks, layerCallbacks, pending,
                   deliveryVars, lastSetMap>>

\* ------------------------------------------------------------------------
\* Setup and map-change handling

onMapInfoEstablished(geocentric) ==
    ellipsoid' = IF geocentric THEN "srs" ELSE NULL

\* Mutant: _map is assigned before the null check.
setMap_AssignsBeforeNullCheck(map) ==
    IF map = NULL
    THEN /\ _map' = map
         /\ UNCHANGED <<crashed, fault, _initStage, _terrainInterface, _textureResourceTracker,
                        _tileModelFactory, _imageLayerController, ellipsoid,
                        mapCallbacks, layerCallbacks>>
    ELSE IF ~mapProfile
    THEN /\ crashed' = TRUE
         /\ fault' = "getProfile"
         /\ _map' = map
         /\ UNCHANGED <<_initStage, _terrainInterface, _textureResourceTracker,
                        _tileModelFactory, _imageLayerController, ellipsoid,
                        mapCallbacks, layerCallbacks>>
    ELSE /\ _map' = map
         /\ _terrainInterface' = _terrainInterface + 1
         /\ _textureResourceTracker' = _textureResourceTracker + 1
         /\ mapCallbacks' = mapCallbacks + 1
         /\ _tileModelFactory' = _tileModelFactory + 1
         /\ onMapInfoEstablished(mapGeocentric)
         /\ _imageLayerController' = _imageLayerController + 1
         /\ layerCallbacks' =
                [l \in ImageLayers |->
                    IF l \in mapLayers
                    THEN addCallback(layerCallbacks, l, _imageLayerController')[l]
                    ELSE layerCallbacks[l]]
         /\ _initStage' = INIT_POSTINIT_COMPLETE
         /\ UNCHANGED <<crashed, fault>>

setMap(map) ==
    IF map = NULL
    THEN UNCHANGED <<crashed, fault, setupVars, ellipsoid, mapCallbacks, layerCallbacks>>
    ELSE IF ~mapProfile
    THEN \* _map->getProfile()->getSRS() on a map without a profile
         /\ crashed' = TRUE
         /\ fault' = "getProfile"
         /\ _map' = map
         /\ UNCHANGED <<_initStage, _terrainInterface, _textureResourceTracker,
                        _tileModelFactory, _imageLayerController, ellipsoid,
                        mapCallbacks, layerCallbacks>>
    ELSE /\ _map' = map
         /\ _terrainInterface' = _terrainInterface + 1
         /\ _textureResourceTracker' = _textureResourceTracker + 1
         /\ mapCallbacks' = mapCallbacks + 1
         /\ _tileModelFactory' = _tileModelFactory + 1
         /\ onMapInfoEstablished(mapGeocentric)
         /\ _imageLayerController' = _imageLayerController + 1
         /\ layerCallbacks' =
                [l \in ImageLayers |->
                    IF l \in mapLayers
                    THEN addCallback(layerCallbacks, l, _imageLayerController')[l]
                    ELSE layerCallbacks[l]]
         /\ _initStage' = INIT_POSTINIT_COMPLETE
         /\ UNCHANGED <<crashed, fault>>

SetMap(map) ==
    /\ MainIdle
    /\ map # NULL => _imageLayerController < MaxSetMap
    /\ setMap(map)
    /\ lastSetMap' = IF crashed' THEN lastSetMap
                     ELSE [map |-> map, changed |-> (Setup' # Setup)]
    /\ UNCHANGED <<patchVars, qpc, alive, flagVars, redrawVars, effectVars, tileVars, mapVars,
                   pending, elevationNotices, deliveryVars>>

\* Mutant: the REMOVE_LAYER branch is missing.
onMapModelChanged_NoUnsubscribe(change) ==
    /\ layerCallbacks' =
           IF change.action = ADD_LAYER /\ change.imageLayer # NULL
           THEN addCallback(layerCallbacks, change.imageLayer, _imageLayerController)
           ELSE layerCallbacks
    /\ IF change.elevationLayer # NULL /\ _terrainInterface = 0
       THEN /\ crashed' = TRUE
            /\ fault' = "_terrainInterface"
            /\ UNCHANGED <<elevationNotices, redrawVars>>
       ELSE /\ elevationNotices' = IF change.elevationLayer # NULL
                                   THEN elevationNotices + 1
                                   ELSE elevationNotices
            /\ requestRedraw
            /\ UNCHANGED <<crashed, fault>>

\* Mutant: the redraw request sits inside the elevation branch.
onMapModelChanged_RedrawInElevationBranch(change) ==
    /\ layerCallbacks' =
           IF change.action = ADD_LAYER /\ change.imageLayer # NULL
           THEN addCallback(layerCallbacks, change.imageLayer, _imageLayerController)
           ELSE IF change.action = REMOVE_LAYER /\ change.imageLayer # NULL
           THEN removeCallback(layerCallbacks, change.imageLayer, _imageLayerController)
           ELSE layerCallbacks
    /\ IF change.elevationLayer # NULL /\ _terrainInterface = 0
       THEN /\ crashed' = TRUE
            /\ fault' = "_terrainInterface"
            /\ UNCHANGED <<elevationNotices, redrawVars>>
       ELSE IF change.elevationLayer # NULL
       THEN /\ elevationNotices' = elevationNotices + 1
            /\ requestRedraw
            /\ UNCHANGED <<crashed, fault>>
       ELSE UNCHANGED <<crashed, fault, elevationNotices, redrawVars>>

onMapModelChanged(change) ==
    /\ layerCallbacks' =
           IF change.action = ADD_LAYER /\ change.imageLayer # NULL
           THEN addCallback(layerCallbacks, change.imageLayer, _imageLayerController)
           ELSE IF change.action = REMOVE_LAYER /\ change.imageLayer # NULL
           THEN removeCallback(layerCallbacks, change.imageLayer, _imageLayerController)
           ELSE layerCallbacks
    /\ IF change.elevationLayer # NULL /\ _terrainInterface = 0
       THEN \* getTerrain() is null
            /\ crashed' = TRUE
            /\ fault' = "_terrainInterface"
            /\ UNCHANGED <<elevationNotices, redrawVars>>
       ELSE /\ elevationNotices' = IF change.elevationLayer # NULL
                                   THEN elevationNotices + 1
                                   ELSE elevationNotices
            /\ requestRedraw
            /\ UNCHANGED <<crashed, fault>>

\* TerrainEngineNodeCallbackProxy: _node.lock(safeNode) succeeds while the
\* node is alive.
ProxyOnMapInfoEstablished(geocentric) ==
    IF alive
    THEN /\ onMapInfoEstablished(geocentric)
         /\ forwarded' = "onMapInfoEstablished"
         /\ UNCHANGED <<crashed, fault, layerCallbacks, elevationNotices, redrawVars>>
    ELSE /\ forwarded' = "dropped"
         /\ UNCHANGED <<crashed, fault, ellipsoid, layerCallbacks, elevationNotices, redrawVars>>

\* Mutant: the proxy calls the node without resolving the observer pointer.
ProxyOnMapModelChanged_NoLock(change) ==
    /\ onMapModelChanged(change)
    /\ forwarded' = "onMapModelChanged"
    /\ UNCHANGED ellipsoid

ProxyOnMapModelChanged(change) ==
    IF alive
    THEN /\ onMapModelChanged(change)
         /\ forwarded' = "onMapModelChanged"
         /\ UNCHANGED ellipsoid
    ELSE /\ forwarded' = "dropped"
         /\ UNCHANGED <<crashed, fault, ellipsoid, layerCallbacks, elevationNotices, redrawVars>>

\* ------------------------------------------------------------------------
\* The map: layer edits and profile establishment, each fired to every
\* registered callback in turn.

CanFire == _dirtyCount + mapCallbacks <= MaxDirty

Fire(kind, change) ==
    pending' = IF mapCallbacks = 0
               THEN NoPending
               ELSE [kind |-> kind, change |-> change, todo |-> mapCallbacks]

MapIdle == ~crashed /\ pending = NoPending /\ CanFire

engineVars == <<patchVars, qpc, alive, crashed, fault, setupVars, ellipsoid, flagVars, redrawVars,
                effectVars, tileVars, elevationNotices>>

MapAddImageLayer(layer) ==
    /\ MapIdle
    /\ layer \notin mapLayers
    /\ mapLayers' = mapLayers \cup {layer}
    /\ Fire("model", MapModelChange(ADD_LAYER, layer))
    /\ UNCHANGED <<engineVars, mapProfile, mapGeocentric, mapCallbacks,
                   layerCallbacks, deliveryVars, lastSetMap>>

MapRemoveImageLayer(layer) ==
    /\ MapIdle
    /\ layer \in mapLayers
    /\ mapLayers' = mapLayers \ {layer}
    /\ Fire("model", MapModelChange(REMOVE_LAYER, layer))
    /\ UNCHANGED <<engineVars, mapProfile, mapGeocentric, mapCallbacks,
                   layerCallbacks, deliveryVars, lastSetMap>>

MapMoveImageLayer(layer) ==
    /\ MapIdle
    /\ layer \in mapLayers
    /\ Fire("model", MapModelChange(MOVE_LAYER, layer))
    /\ UNCHANGED <<engineVars, mapVars, mapCallbacks,
                   layerCallbacks, deliveryVars, lastSetMap>>

\* An edit of a layer that is no image layer; the engine keeps no record of
\* which of these the map holds.
MapChangeOtherLayer(action, layer) ==
    /\ MapIdle
    /\ Fire("model", MapModelChange(action, layer))
    /\ UNCHANGED <<engineVars, mapVars, mapCallbacks,
                   layerCallbacks, deliveryVars, lastSetMap>>

MapEstablishProfile ==
    /\ MapIdle
    /\ mapProfile' = TRUE
    /\ Fire("info", NoChange)
    /\ UNCHANGED <<engineVars, mapGeocentric, mapLayers, mapCallbacks,
                   layerCallbacks, deliveryVars, lastSetMap>>

MapFireCallback ==
    /\ ~crashed
    /\ pending # NoPending
    /\ IF pending.kind = "info"
       THEN ProxyOnMapInfoEstablished(mapGeocentric)
       ELSE ProxyOnMapModelChanged(pending.change)
    /\ pending' = IF pending.todo = 1
                  THEN NoPending
                  ELSE [pending EXCEPT !.todo = @ - 1]
    /\ UNCHANGED <<patchVars, qpc, alive, setupVars, flagVars, effectVars, tileVars, mapVars,
                   mapCallbacks, lastSetMap>>

\* ------------------------------------------------------------------------
\* Effects

\* std::find: the index of the first element equal to x, or 0.
Find(seq, x) ==
    IF \E i \in 1..Len(seq) : seq[i] = x
    THEN CHOOSE i \in 1..Len(seq) : seq[i] = x /\ \A j \in 1..(i - 1) : seq[j] # x
    ELSE 0

\* vector::erase of the element at index i.
Erase(seq, i) == SubSeq(seq, 1, i - 1) \o SubSeq(seq, i + 1, Len(seq))

addEffect(effect) ==
    IF effect # NULL
    THEN /\ effects_' = Append(effects_, effect)
         /\ hookCalls' = <<[hook |-> "onInstall", effect |-> effect]>>
         /\ stateDirtied' = 1
    ELSE /\ hookCalls' = <<>>
         /\ stateDirtied' = 0
         /\ UNCHANGED effects_

\* Mutant: the found element is not erased.
removeEffect_NoErase(effect) ==
    IF effect # NULL
    THEN /\ hookCalls' = <<[hook |-> "onUninstall", effect |-> effect]>>
         /\ stateDirtied' = 1
         /\ UNCHANGED effects_
    ELSE /\ hookCalls' = <<>>
         /\ stateDirtied' = 0
         /\ UNCHANGED effects_

removeEffect(effect) ==
    IF effect # NULL
    THEN /\ hookCalls' = <<[hook |-> "onUninstall", effect |-> effect]>>
         /\ effects_' = IF Find(effects_, effect) # 0
                        THEN Erase(effects_, Find(effects_, effect))
                        ELSE effects_
         /\ stateDirtied' = 1
    ELSE /\ hookCalls' = <<>>
         /\ stateDirtied' = 0
         /\ UNCHANGED effects_

RecordEffectOp(op, effect) ==
    /\ lastEffectOp' = [op |-> op, effect |-> effect, before |-> effects_]
    /\ prevEffectOp' = IF lastEffectOp = NoEffectOp
                       THEN NoEffectOp
                       ELSE [op |-> lastEffectOp.op, effect |-> lastEffectOp.effect,
                             before |-> lastEffectOp.before, hooks |-> hookCalls]

AddEffect(effect) ==
    /\ MainIdle
    /\ effect # NULL => Len(effects_) < MaxEffects
    /\ addEffect(effect)
    /\ RecordEffectOp("addEffect", effect)
    /\ UNCHANGED <<patchVars, qpc, alive, crashed, fault, setupVars, ellipsoid, flagVars, redrawVars,
                   tileVars, mapVars, mapCallbacks, layerCallbacks, pending,
                   elevationNotices, deliveryVars, lastSetMap>>

RemoveEffect(effect) ==
    /\ MainIdle
    /\ removeEffect(effect)
    /\ RecordEffectOp("removeEffect", effect)
    /\ UNCHANGED <<patchVars, qpc, alive, crashed, fault, setupVars, ellipsoid, flagVars, redrawVars,
                   tileVars, mapVars, mapCallbacks, layerCallbacks, pending,
                   elevationNotices, deliveryVars, lastSetMap>>

\* ------------------------------------------------------------------------
\* Tile-model construction and the CreateTileModelCallback registry.
\* Threading::ReadWriteMutex: any number of shared holders or one
\* exclusive holder.

CanReadLock == writer = NONE
CanWriteLock == writer = NONE /\ readers = {}

\* createTileModel, line 320: the call enters the factory.
CreateTileModelCall(w) ==
    /\ alive /\ ~crashed
    /\ wpc[w].pc = "idle"
    /\ rpc[w].pc = "idle"
    /\ IF _tileModelFactory = 0
       THEN crashed' = TRUE /\ fault' = "_tileModelFactory" /\ UNCHANGED wpc
       ELSE /\ wpc' = [wpc EXCEPT ![w] = [WorkerIdle EXCEPT
                          !.pc = "factory",
                          !.entryReg = _createTileModelCallbacks]]
            /\ UNCHANGED <<crashed, fault>>
    /\ UNCHANGED <<patchVars, qpc, alive, setupVars, ellipsoid, flagVars, redrawVars, effectVars,
                   _createTileModelCallbacks, readers, writer, rpc,
                   mapVars, mapCallbacks, layerCallbacks, pending,
                   elevationNotices, deliveryVars, lastSetMap>>

\* Mutant: the callbacks are fired without the model.valid() test.
CreateTileModelFactoryReturn_NoValidCheck(w, model) ==
    /\ ~crashed
    /\ wpc[w].pc = "factory"
    /\ wpc' = [wpc EXCEPT ![w] = [@ EXCEPT !.pc = "lock", !.result = model]]
    /\ UNCHANGED <<patchVars, qpc, alive, crashed, fault, setupVars, ellipsoid, flagVars, redrawVars,
                   effectVars, _createTileModelCallbacks, readers, writer, rpc,
                   mapVars, mapCallbacks, layerCallbacks, pending,
                   elevationNotices, deliveryVars, lastSetMap>>

\* Lines 320-327 and 339: the factory returns a model or null.
CreateTileModelFactoryReturn(w, model) ==
    /\ ~crashed
    /\ wpc[w].pc = "factory"
    /\ wpc' = [wpc EXCEPT ![w] =
                  IF model # NULL
                  THEN [@ EXCEPT !.pc = "lock", !.result = model]
                  ELSE [@ EXCEPT !.pc = "done", !.result = model, !.entryReg = <<>>]]
    /\ UNCHANGED <<patchVars, qpc, alive, crashed, fault, setupVars, ellipsoid, flagVars, redrawVars,
                   effectVars, _createTileModelCallbacks, readers, writer, rpc,
                   mapVars, mapCallbacks, layerCallbacks, pending,
                   elevationNotices, deliveryVars, lastSetMap>>

\* Mutant: the registry is iterated without the shared lock.
CreateTileModelReadLock_NoLock(w) ==
    /\ ~crashed
    /\ wpc[w].pc = "lock"
    /\ wpc' = [wpc EXCEPT ![w] = [@ EXCEPT !.pc = "fire", !.idx = 1]]
    /\ UNCHANGED <<patchVars, qpc, alive, crashed, fault, setupVars, ellipsoid, flagVars, redrawVars,
                   effectVars, _createTileModelCallbacks, readers, writer, rpc,
                   mapVars, mapCallbacks, layerCallbacks, pending,
                   elevationNotices, deliveryVars, lastSetMap>>

\* Line 331: ScopedReadLock, and the iterator at begin().
CreateTileModelReadLock(w) ==
    /\ ~crashed
    /\ wpc[w].pc = "lock"
    /\ CanReadLock
    /\ readers' = readers \cup {w}
    /\ wpc' = [wpc EXCEPT ![w] = [@ EXCEPT !.pc = "fire", !.idx = 1]]
    /\ UNCHANGED <<patchVars, qpc, alive, crashed, fault, setupVars, ellipsoid, flagVars, redrawVars,
                   effectVars, _createTileModelCallbacks, writer, rpc,
                   mapVars, mapCallbacks, layerCallbacks, pending,
                   elevationNotices, deliveryVars, lastSetMap>>

\* Lines 332-337: one callback is invoked.
CreateTileModelFire(w) ==
    /\ ~crashed
    /\ wpc[w].pc = "fire"
    /\ rpc[w].pc = "idle"
    /\ wpc[w].idx <= Len(_createTileModelCallbacks)
    /\ wpc' = [wpc EXCEPT ![w] =
                  [@ EXCEPT !.fired = Append(@, _createTileModelCallbacks[wpc[w].idx]),
                            !.idx = @ + 1]]
    /\ UNCHANGED <<patchVars, qpc, alive, crashed, fault, setupVars, ellipsoid, flagVars, redrawVars,
                   effectVars, _createTileModelCallbacks, readers, writer, rpc,
                   mapVars, mapCallbacks, layerCallbacks, pending,
                   elevationNotices, deliveryVars, lastSetMap>>

\* Lines 332-337, with a callback whose onCreateTileModel calls
\* addCreateTileModelCallback or removeCreateTileModelCallback on the engine
\* it is given: the thread enters that call while it holds the shared lock,
\* and the callback returns when that call has returned.
CreateTileModelFireReentrant(w, op, callback) ==
    /\ ~crashed
    /\ wpc[w].pc = "fire"
    /\ rpc[w].pc = "idle"
    /\ wpc[w].idx <= Len(_createTileModelCallbacks)
    /\ op = "add" => Len(_createTileModelCallbacks) < MaxCallbacks
    /\ wpc' = [wpc EXCEPT ![w] =
                  [@ EXCEPT !.fired = Append(@, _createTileModelCallbacks[wpc[w].idx]),
                            !.idx = @ + 1]]
    /\ rpc' = [rpc EXCEPT ![w] = [pc |-> "lock", op |-> op, callback |-> callback]]
    /\ UNCHANGED <<patchVars, qpc, alive, crashed, fault, setupVars, ellipsoid, flagVars, redrawVars,
                   effectVars, _createTileModelCallbacks, readers, writer,
                   mapVars, mapCallbacks, layerCallbacks, pending,
                   elevationNotices, deliveryVars, lastSetMap>>

\* Lines 333 and 338-339: the iterator is at end(), the lock is released
\* and the model returned.
CreateTileModelUnlock(w) ==
    /\ ~crashed
    /\ wpc[w].pc = "fire"
    /\ rpc[w].pc = "idle"
    /\ wpc[w].idx > Len(_createTileModelCallbacks)
    /\ readers' = readers \ {w}
    /\ wpc' = [wpc EXCEPT ![w] = [@ EXCEPT !.pc = "done", !.idx = 0, !.entryReg = <<>>]]
    /\ UNCHANGED <<patchVars, qpc, alive, crashed, fault, setupVars, ellipsoid, flagVars, redrawVars,
                   effectVars, _createTileModelCallbacks, writer, rpc,
                   mapVars, mapCallbacks, layerCallbacks, pending,
                   elevationNotices, deliveryVars, lastSetMap>>

\* The caller takes the result.
CreateTileModelReturn(w) ==
    /\ ~crashed
    /\ wpc[w].pc = "done"
    /\ wpc' = [wpc EXCEPT ![w] = WorkerIdle]
    /\ UNCHANGED <<patchVars, qpc, alive, crashed, fault, setupVars, ellipsoid, flagVars, redrawVars,
                   effectVars, _createTileModelCallbacks, readers, writer, rpc,
                   mapVars, mapCallbacks, layerCallbacks, pending,
                   elevationNotices, deliveryVars, lastSetMap>>

\* addCreateTileModelCallback / removeCreateTileModelCallback are called.
RegistryCall(r, op, callback) ==
    /\ alive /\ ~crashed
    /\ rpc[r].pc = "idle"
    /\ r \in Workers => wpc[r].pc = "idle"
    /\ op = "add" => Len(_createTileModelCallbacks) < MaxCallbacks
    /\ rpc' = [rpc EXCEPT ![r] = [pc |-> "lock", op |-> op, callback |-> callback]]
    /\ UNCHANGED <<patchVars, qpc, alive, crashed, fault, setupVars, ellipsoid, flagVars, redrawVars,
                   effectVars, _createTileModelCallbacks, readers, writer, wpc,
                   mapVars, mapCallbacks, layerCallbacks, pending,
                   elevationNotices, deliveryVars, lastSetMap>>

\* Mutant: the registry is mutated under a ScopedReadLock.
RegistryWriteLock_SharedLock(r) ==
    /\ ~crashed
    /\ rpc[r].pc = "lock"
    /\ CanReadLock
    /\ rpc' = [rpc EXCEPT ![r] = [@ EXCEPT !.pc = "locked"]]
    /\ UNCHANGED <<patchVars, qpc, alive, crashed, fault, setupVars, ellipsoid, flagVars, redrawVars,
                   effectVars, _createTileModelCallbacks, readers, writer, wpc,
                   mapVars, mapCallbacks, layerCallbacks, pending,
                   elevationNotices, deliveryVars, lastSetMap>>

\* Lines 345 and 352: ScopedWriteLock.
RegistryWriteLock(r) ==
    /\ ~crashed
    /\ rpc[r].pc = "lock"
    /\ CanWriteLock
    /\ writer' = r
    /\ rpc' = [rpc EXCEPT ![r] = [@ EXCEPT !.pc = "locked"]]
    /\ UNCHANGED <<patchVars, qpc, alive, crashed, fault, setupVars, ellipsoid, flagVars, redrawVars,
                   effectVars, _createTileModelCallbacks, readers, wpc,
                   mapVars, mapCallbacks, layerCallbacks, pending,
                   elevationNotices, deliveryVars, lastSetMap>>

addCreateTileModelCallback(callback) ==
    _createTileModelCallbacks' = Append(_createTileModelCallbacks, callback)

\* Mutant: the loop has no break and erases every entry equal to the callback.
removeCreateTileModelCallback_NoBreak(callback) ==
    _createTileModelCallbacks' =
        SelectSeq(_createTileModelCallbacks, LAMBDA e : e # callback)

removeCreateTileModelCallback(callback) ==
    _createTileModelCallbacks' =
        IF Find(_createTileModelCallbacks, callback) # 0
        THEN Erase(_createTileModelCallbacks, Find(_createTileModelCallbacks, callback))
        ELSE _createTileModelCallbacks

\* Lines 346-347 and 353-361: the registry is changed and the lock released.
RegistryMutate(r) ==
    /\ ~crashed
    /\ rpc[r].pc = "locked"
    /\ IF rpc[r].op = "add"
       THEN addCreateTileModelCallback(rpc[r].callback)
       ELSE removeCreateTileModelCallback(rpc[r].callback)
    /\ writer' = NONE
    /\ rpc' = [rpc EXCEPT ![r] = RegistrarIdle]
    /\ UNCHANGED <<patchVars, qpc, alive, crashed, fault, setupVars, ellipsoid, flagVars, redrawVars,
                   effectVars, readers, wpc,
                   mapVars, mapCallbacks, layerCallbacks, pending,
                   elevationNotices, deliveryVars, lastSetMap>>

\* ------------------------------------------------------------------------
\* The tile-patch and tile-node callback registries

\* std::remove: the elements that differ from x move to the front in their
\* order; the size does not change and the positions behind them are not
\* written: such a position keeps an x it held, and otherwise holds what the
\* assignment left of the element that moved away (the element itself when
\* the assignment copies, a null ref_ptr when it moves).
Remove(seq, x, moved) ==
    LET kept == SelectSeq(seq, LAMBDA e : e # x)
    IN [i \in 1..Len(seq) |->
           IF i <= Len(kept) THEN kept[i]
           ELSE IF seq[i] = x THEN x
           ELSE IF moved THEN NULL
           ELSE seq[i]]

addTilePatchCallback(registry, cb) == Append(registry, cb)

\* The iterator std::remove returns is dropped; nothing is erased.
removeTilePatchCallback(registry, cb, moved) == Remove(registry, cb, moved)

\* Lines 429 and 435: a thread enters addTilePatchCallback or
\* removeTilePatchCallback; neither takes a lock, so other threads may be
\* inside already.
TilePatchCall(t, op, cb) ==
    /\ alive /\ ~crashed
    /\ ppc[t].pc = "idle"
    /\ op = "add" => Len(_tilePatchCallbacks) < MaxPatchCallbacks
    /\ LET inside == {u \in PatchThreads \ {t} : ppc[u].pc = "access"}
       IN ppc' = [u \in PatchThreads |->
                     IF u = t
                     THEN [pc |-> "access", op |-> op, cb |-> cb,
                           raced |-> inside # {}, idx |-> 0]
                     ELSE IF u \in inside
                     THEN [ppc[u] EXCEPT !.raced = TRUE]
                     ELSE ppc[u]]
    /\ UNCHANGED <<_tilePatchCallbacks, _tileNodeCallbacks, _tileNodeCallbacksMutex,
                   qpc, alive, crashed, fault, setupVars, ellipsoid,
                   flagVars, redrawVars, effectVars, tileVars, mapVars, mapCallbacks,
                   layerCallbacks, pending, elevationNotices, deliveryVars, lastSetMap>>

\* Lines 429 and 435: the vector operation is done. When another thread used
\* the vector meanwhile, this thread's writes may be lost under the other's.
TilePatchReturn(t) ==
    /\ ~crashed
    /\ ppc[t].pc = "access"
    /\ \E moved \in BOOLEAN, lost \in {FALSE, ppc[t].raced} :
           _tilePatchCallbacks' =
               IF lost
               THEN _tilePatchCallbacks
               ELSE IF ppc[t].op = "add"
               THEN addTilePatchCallback(_tilePatchCallbacks, ppc[t].cb)
               ELSE removeTilePatchCallback(_tilePatchCallbacks, ppc[t].cb, moved)
    /\ ppc' = [ppc EXCEPT ![t] = PatchIdle]
    /\ UNCHANGED <<_tileNodeCallbacks, _tileNodeCallbacksMutex,
                   qpc, alive, crashed, fault, setupVars, ellipsoid,
                   flagVars, redrawVars, effectVars, tileVars, mapVars, mapCallbacks,
                   layerCallbacks, pending, elevationNotices, deliveryVars, lastSetMap>>

\* Two unsynchronised operations on one std::vector: the memory of the
\* vector may be corrupted.
TilePatchCorrupt(t) ==
    /\ ~crashed
    /\ ppc[t].pc = "access"
    /\ ppc[t].raced
    /\ crashed' = TRUE
    /\ fault' = "_tilePatchCallbacks"
    /\ UNCHANGED <<patchVars, qpc, alive, setupVars, ellipsoid,
                   flagVars, redrawVars, effectVars, tileVars, mapVars, mapCallbacks,
                   layerCallbacks, pending, elevationNotices, deliveryVars, lastSetMap>>

\* A tile-node callback is registered, under the registry's mutex.
AddTileNodeCallback(t, cb) ==
    /\ alive /\ ~crashed
    /\ ppc[t].pc = "idle"
    /\ _tileNodeCallbacksMutex = NONE
    /\ Len(_tileNodeCallbacks) < MaxCallbacks
    /\ _tileNodeCallbacks' = Append(_tileNodeCallbacks, cb)
    /\ UNCHANGED <<_tilePatchCallbacks, _tileNodeCallbacksMutex, ppc,
                   qpc, alive, crashed, fault, setupVars, ellipsoid,
                   flagVars, redrawVars, effectVars, tileVars, mapVars, mapCallbacks,
                   layerCallbacks, pending, elevationNotices, deliveryVars, lastSetMap>>

\* notifyOfTerrainTileNodeCreation is called.
NotifyCall(t) ==
    /\ alive /\ ~crashed
    /\ ppc[t].pc = "idle"
    /\ ppc' = [ppc EXCEPT ![t] = [PatchIdle EXCEPT !.pc = "lock", !.op = "notify"]]
    /\ UNCHANGED <<_tilePatchCallbacks, _tileNodeCallbacks, _tileNodeCallbacksMutex,
                   qpc, alive, crashed, fault, setupVars, ellipsoid,
                   flagVars, redrawVars, effectVars, tileVars, mapVars, mapCallbacks,
                   layerCallbacks, pending, elevationNotices, deliveryVars, lastSetMap>>

\* Line 419: ScopedMutexLock, and i = 0.
NotifyLock(t) ==
    /\ ~crashed
    /\ ppc[t].pc = "lock"
    /\ _tileNodeCallbacksMutex = NONE
    /\ _tileNodeCallbacksMutex' = t
    /\ ppc' = [ppc EXCEPT ![t] = [@ EXCEPT !.pc = "iterate", !.idx = 1]]
    /\ UNCHANGED <<_tilePatchCallbacks, _tileNodeCallbacks,
                   qpc, alive, crashed, fault, setupVars, ellipsoid,
                   flagVars, redrawVars, effectVars, tileVars, mapVars, mapCallbacks,
                   layerCallbacks, pending, elevationNotices, deliveryVars, lastSetMap>>

\* Lines 420-423: one tile-node callback is invoked.
NotifyFire(t) ==
    /\ ~crashed
    /\ ppc[t].pc = "iterate"
    /\ ppc[t].idx <= Len(_tileNodeCallbacks)
    /\ ppc' = [ppc EXCEPT ![t] = [@ EXCEPT !.idx = @ + 1]]
    /\ UNCHANGED <<_tilePatchCallbacks, _tileNodeCallbacks, _tileNodeCallbacksMutex,
                   qpc, alive, crashed, fault, setupVars, ellipsoid,
                   flagVars, redrawVars, effectVars, tileVars, mapVars, mapCallbacks,
                   layerCallbacks, pending, elevationNotices, deliveryVars, lastSetMap>>

\* Lines 420 and 424: the loop ends and the mutex is released.
NotifyUnlock(t) ==
    /\ ~crashed
    /\ ppc[t].pc = "iterate"
    /\ ppc[t].idx > Len(_tileNodeCallbacks)
    /\ _tileNodeCallbacksMutex' = NONE
    /\ ppc' = [ppc EXCEPT ![t] = PatchIdle]
    /\ UNCHANGED <<_tilePatchCallbacks, _tileNodeCallbacks,
                   qpc, alive, crashed, fault, setupVars, ellipsoid,
                   flagVars, redrawVars, effectVars, tileVars, mapVars, mapCallbacks,
                   layerCallbacks, pending, elevationNotices, deliveryVars, lastSetMap>>

\* ------------------------------------------------------------------------
\* Teardown

WorkersIdle ==
    /\ \A w \in Workers : wpc[w].pc = "idle"
    /\ \A r \in Threads : rpc[r].pc = "idle"
    /\ \A t \in PatchThreads : ppc[t].pc = "idle"
    /\ \A t \in Redrawers : qpc[t].pc = "idle"

Destroy ==
    /\ MainIdle
    /\ WorkersIdle
    /\ alive' = FALSE
    /\ layerCallbacks' =
           IF _map # NULL
           THEN [l \in ImageLayers |->
                    IF l \in mapLayers
                    THEN removeCallback(layerCallbacks, l, _imageLayerController)[l]
                    ELSE layerCallbacks[l]]
           ELSE layerCallbacks
    /\ UNCHANGED <<patchVars, qpc, crashed, fault, setupVars, ellipsoid, flagVars,
                   redrawVars, effectVars,
                   tileVars, mapVars, mapCallbacks, pending, elevationNotices,
                   deliveryVars, lastSetMap>>

\* ------------------------------------------------------------------------
\* Specifications

NextMap ==
    \/ \E map \in {NULL, TheMap} : SetMap(map)
    \/ \E layer \in ImageLayers : MapAddImageLayer(layer)
    \/ \E layer \in ImageLayers : MapRemoveImageLayer(layer)
    \/ \E layer \in ImageLayers : MapMoveImageLayer(layer)
    \/ \E action \in Actions, layer \in ElevationLayers \cup OtherLayers :
           MapChangeOtherLayer(action, layer)
    \/ MapEstablishProfile
    \/ MapFireCallback
    \/ RequestRedraw
    \/ DirtyTerrain
    \/ RequireNormalTextures
    \/ RequireElevationTextures
    \/ RequireParentTextures
    \/ \E visitorType \in VisitorTypes : Traverse(visitorType)
    \/ Destroy

SpecMap == Init /\ [][NextMap]_vars

\* Every family of operations beside the requirement-flag setters, each with
\* one input.
NextFlags ==
    \/ RequireNormalTextures
    \/ RequireElevationTextures
    \/ RequireParentTextures
    \/ SetMap(TheMap)
    \/ MapEstablishProfile
    \/ MapAddImageLayer("img1")
    \/ MapFireCallback
    \/ Traverse(EVENT_VISITOR)
    \/ Traverse(UPDATE_VISITOR)
    \/ AddEffect("fx1")
    \/ RemoveEffect("fx1")
    \/ \E r \in Registrars : RegistryCall(r, "add", "cb1")
    \/ \E r \in Registrars : RegistryWriteLock(r)
    \/ \E r \in Registrars : RegistryMutate(r)
    \/ Destroy

SpecFlags == Init /\ [][NextFlags]_vars

NextEffects ==
    \/ \E effect \in Effects \cup {NULL} : AddEffect(effect)
    \/ \E effect \in Effects \cup {NULL} : RemoveEffect(effect)

SpecEffects == Init /\ [][NextEffects]_vars

NextTile ==
    \/ SetMap(TheMap)
    \/ \E w \in Workers : CreateTileModelCall(w)
    \/ \E w \in Workers, model \in {NULL, "model"} : CreateTileModelFactoryReturn(w, model)
    \/ \E w \in Workers : CreateTileModelReadLock(w)
    \/ \E w \in Workers : CreateTileModelFire(w)
    \/ \E w \in Workers : CreateTileModelUnlock(w)
    \/ \E w \in Workers : CreateTileModelReturn(w)
    \/ \E r \in Registrars, op \in {"add", "remove"}, callback \in Callbacks :
           RegistryCall(r, op, callback)
    \/ \E r \in Registrars : RegistryWriteLock(r)
    \/ \E r \in Registrars : RegistryMutate(r)

SpecTile == Init /\ [][NextTile]_vars

\* The registry lock under contention: every thread may register or remove a
\* callback when it is not inside createTileModel.
NextLock ==
    \/ SetMap(TheMap)
    \/ \E w \in Workers : CreateTileModelCall(w)
    \/ \E w \in Workers : CreateTileModelFactoryReturn(w, "model")
    \/ \E w \in Workers : CreateTileModelReadLock(w)
    \/ \E w \in Workers : CreateTileModelFire(w)
    \/ \E w \in Workers : CreateTileModelUnlock(w)
    \/ \E w \in Workers : CreateTileModelReturn(w)
    \/ \E r \in Threads, op \in {"add", "remove"} : RegistryCall(r, op, "cb1")
    \/ \E r \in Threads : RegistryWriteLock(r)
    \/ \E r \in Threads : RegistryMutate(r)

SpecLock == Init /\ [][NextLock]_vars

\* Tile-model construction with callbacks that register or remove callbacks
\* on the engine that invokes them.
NextReentrant ==
    \/ SetMap(TheMap)
    \/ \E w \in Workers : CreateTileModelCall(w)
    \/ \E w \in Workers, model \in {NULL, "model"} : CreateTileModelFactoryReturn(w, model)
    \/ \E w \in Workers : CreateTileModelReadLock(w)
    \/ \E w \in Workers : CreateTileModelFire(w)
    \/ \E w \in Workers, op \in {"add", "remove"}, callback \in Callbacks :
           CreateTileModelFireReentrant(w, op, callback)
    \/ \E w \in Workers : CreateTileModelUnlock(w)
    \/ \E w \in Workers : CreateTileModelReturn(w)
    \/ \E r \in Registrars, op \in {"add", "remove"}, callback \in Callbacks :
           RegistryCall(r, op, callback)
    \/ \E r \in Threads : RegistryWriteLock(r)
    \/ \E r \in Threads : RegistryMutate(r)

SpecReentrant == Init /\ [][NextReentrant]_vars

\* requestRedraw from several threads, and the event traversal.
NextRedraw ==
    \/ \E t \in Redrawers : RequestRedrawRead(t)
    \/ \E t \in Redrawers : RequestRedrawWrite(t)
    \/ \E t \in Redrawers : RequestRedrawSignal(t)
    \/ Traverse(EVENT_VISITOR)

SpecRedraw == Init /\ [][NextRedraw]_vars

NextPatch ==
    \/ \E t \in PatchThreads, op \in {"add", "remove"}, cb \in PatchCallbacks :
           TilePatchCall(t, op, cb)
    \/ \E t \in PatchThreads : TilePatchReturn(t)
    \/ \E t \in PatchThreads : TilePatchCorrupt(t)
    \/ \E t \in PatchThreads, cb \in TileNodeCallbacks : AddTileNodeCallback(t, cb)
    \/ \E t \in PatchThreads : NotifyCall(t)
    \/ \E t \in PatchThreads : NotifyLock(t)
    \/ \E t \in PatchThreads : NotifyFire(t)
    \/ \E t \in PatchThreads : NotifyUnlock(t)

SpecPatch == Init /\ [][NextPatch]_vars

\* ------------------------------------------------------------------------
\* Properties

Count(seq, x) == Cardinality({i \in 1..Len(seq) : seq[i] = x})
Range(seq) == {seq[i] : i \in 1..Len(seq)}

\* A step in which the map calls one registered proxy.
ProxyStep == pending # NoPending /\ pending' # pending

\* C1: after one successful setMap, once every ADD_LAYER / REMOVE_LAYER
\* change the map has made is delivered, the controller is subscribed exactly
\* once on each image layer of the map and on no other image layer.
C1_SubscriptionsMatchMap ==
    (alive /\ ~crashed /\ pending = NoPending /\ _imageLayerController = 1)
    => \A l \in ImageLayers :
           layerCallbacks[l][_imageLayerController] = IF l \in mapLayers THEN 1 ELSE 0

C1_Witness ==
    /\ alive /\ pending = NoPending /\ _imageLayerController = 1
    /\ forwarded = "onMapModelChanged"
    /\ mapLayers = {"img2"}
    /\ layerCallbacks["img2"][1] = 1
    /\ layerCallbacks["img1"][1] = 0

\* C2: a createTileModel call whose factory returned null invokes no
\* callback; one whose factory returned a model invokes the registry's
\* entries one by one in registration order, and returns only when each has
\* been invoked exactly once.
C2_FiresAllInOrder ==
    /\ [](\A w \in Workers :
            /\ wpc[w].pc \in {"lock", "fire"} => wpc[w].result = "model"
            /\ wpc[w].result # "model" => wpc[w].fired = <<>>
            /\ wpc[w].pc = "fire" =>
                   wpc[w].fired = SubSeq(_createTileModelCallbacks, 1, wpc[w].idx - 1))
    /\ [][\A w \in Workers :
            (wpc[w].pc = "fire" /\ wpc'[w].pc = "done") =>
                /\ wpc'[w].fired = _createTileModelCallbacks
                /\ wpc'[w].result = "model"]_vars

C2_Witness ==
    \E w \in Workers :
        /\ wpc[w].pc = "done"
        /\ wpc[w].result = "model"
        /\ wpc[w].fired = <<"cb2", "cb1">>

\* C3, as claimed: a call in flight invokes no callback registered after the
\* call began: it invokes no callback more often than the registry held it
\* when the call entered createTileModel.
C3_SnapshotAtEntry ==
    \A w \in Workers : \A cb \in Callbacks :
        wpc[w].pc = "fire" => Count(wpc[w].fired, cb) <= Count(wpc[w].entryReg, cb)

\* C3, amended: the registry does not change while a call holds the shared
\* lock, so a registration begun then is not seen by that call; the call
\* invokes the registry as it is under the lock, which includes callbacks
\* registered while the factory was building the model.
C3_SnapshotAtLock ==
    [][\A w \in Workers :
        /\ wpc[w].pc = "fire" => _createTileModelCallbacks' = _createTileModelCallbacks
        /\ (wpc[w].pc = "fire" /\ wpc'[w].pc = "done") =>
               \A cb \in Callbacks :
                   Count(wpc[w].fired, cb) = Count(_createTileModelCallbacks, cb)]_vars

C3_Witness ==
    \E w \in Workers, r \in Registrars :
        /\ wpc[w].pc = "fire"
        /\ wpc[w].entryReg = <<>>
        /\ wpc[w].fired = <<"cb1">>
        /\ rpc[r].pc = "lock"
        /\ rpc[r].op = "add"

\* C4: in every cycle between two event traversals, one outward redraw
\* signal has been emitted if the cycle holds a dirtying call and none
\* otherwise, and the counter counts the cycle's dirtying calls.
C4_OneSignalPerCycle ==
    /\ redrawSignals = IF redrawCalls > 0 THEN 1 ELSE 0
    /\ _dirtyCount = redrawCalls

C4_Witness ==
    /\ redrawCalls = 3
    /\ redrawSignals = 1
    /\ forwarded = "onMapModelChanged"
    /\ _requireNormalTextures

\* C5: the requirement flags are false at construction and no step sets a
\* flag that is true back to false.
C5_FlagsMonotonic ==
    /\ (~_requireNormalTextures /\ ~_requireElevationTextures /\ ~_requireParentTextures)
    /\ [][/\ _requireNormalTextures => _requireNormalTextures'
          /\ _requireElevationTextures => _requireElevationTextures'
          /\ _requireParentTextures => _requireParentTextures']_vars

C5_Witness ==
    /\ _requireNormalTextures /\ _requireElevationTextures /\ _requireParentTextures
    /\ ~alive
    /\ _initStage = INIT_POSTINIT_COMPLETE
    /\ redrawCalls = 0
    /\ effects_ = <<"fx1">>
    /\ _createTileModelCallbacks = <<"cb1">>

\* addEffect(e) immediately followed by removeEffect(e), e not null.
AddThenRemove ==
    /\ lastEffectOp.op = "removeEffect"
    /\ prevEffectOp.op = "addEffect"
    /\ lastEffectOp.effect # NULL
    /\ prevEffectOp.effect = lastEffectOp.effect

InstallThenUninstall ==
    /\ prevEffectOp.hooks = <<[hook |-> "onInstall", effect |-> lastEffectOp.effect]>>
    /\ hookCalls = <<[hook |-> "onUninstall", effect |-> lastEffectOp.effect]>>

\* C6, as claimed: whatever the list held before, addEffect(e) then
\* removeEffect(e) leaves it as it was and calls install, then uninstall.
C6_AddRemoveRestores ==
    AddThenRemove => (effects_ = prevEffectOp.before /\ InstallThenUninstall)

\* C6, amended: the pair calls install then uninstall once each; it leaves
\* the list as it was when the list did not hold e, and otherwise leaves the
\* list without its first e and with e at the end.
C6_AddRemoveErasesFirst ==
    AddThenRemove =>
        LET e == lastEffectOp.effect
            before == prevEffectOp.before
        IN /\ InstallThenUninstall
           /\ e \notin Range(before) => effects_ = before
           /\ e \in Range(before) =>
                  \E i \in 1..Len(before) :
                      /\ before[i] = e
                      /\ \A j \in 1..(i - 1) : before[j] # e
                      /\ effects_ = SubSeq(before, 1, i - 1)
                                      \o SubSeq(before, i + 1, Len(before)) \o <<e>>

C6_Witness ==
    /\ AddThenRemove
    /\ prevEffectOp.before = <<"fx1", "fx2">>
    /\ lastEffectOp.effect = "fx1"
    /\ effects_ = <<"fx2", "fx1">>

\* C7: removeEffect of an effect the list does not hold, addEffect(null) and
\* removeEffect(null) call no hook, do not mark the state dirty and leave the
\* list unchanged.
C7_NoOps ==
    (/\ lastEffectOp # NoEffectOp
     /\ \/ lastEffectOp.effect = NULL
        \/ /\ lastEffectOp.op = "removeEffect"
           /\ lastEffectOp.effect \notin Range(lastEffectOp.before))
    => (hookCalls = <<>> /\ stateDirtied = 0 /\ effects_ = lastEffectOp.before)

\* C8: a notification fired through a proxy reaches the matching engine
\* handler, once, while the node is alive; after the node is destroyed it is
\* dropped and changes nothing.
C8_ProxyForwardsWhileAlive ==
    [][ProxyStep =>
        IF alive
        THEN /\ pending.kind = "info" =>
                  /\ forwarded' = "onMapInfoEstablished"
                  /\ ellipsoid' = IF mapGeocentric THEN "srs" ELSE NULL
                  /\ redrawCalls' = redrawCalls
             /\ pending.kind = "model" =>
                  /\ forwarded' = "onMapModelChanged"
                  /\ redrawCalls' = redrawCalls + 1
        ELSE /\ forwarded' = "dropped"
             /\ UNCHANGED <<crashed, fault, setupVars, ellipsoid, layerCallbacks,
                            elevationNotices, redrawVars, flagVars>>]_vars

C8_Witness ==
    /\ ~alive
    /\ forwarded = "dropped"
    /\ pending = NoPending
    /\ mapLayers = {"img1"}
    /\ layerCallbacks["img1"][1] = 0
    /\ _imageLayerController = 1

\* C9: onMapModelChanged requests one redraw for every change, notifies the
\* terrain exactly for a change carrying an elevation layer, and subscribes /
\* unsubscribes the controller exactly for ADD_LAYER / REMOVE_LAYER of an
\* image layer.
C9_BranchesIndependent ==
    [][(ProxyStep /\ alive /\ pending.kind = "model") =>
        LET change == pending.change
            layer == change.imageLayer
            ctl == _imageLayerController
        IN /\ redrawCalls' = redrawCalls + 1
           /\ elevationNotices' = elevationNotices +
                  (IF change.elevationLayer # NULL THEN 1 ELSE 0)
           /\ layerCallbacks' =
                  IF change.action = ADD_LAYER /\ layer # NULL
                  THEN [layerCallbacks EXCEPT ![layer][ctl] = @ + 1]
                  ELSE IF change.action = REMOVE_LAYER /\ layer # NULL
                  THEN [layerCallbacks EXCEPT ![layer][ctl] = IF @ > 0 THEN @ - 1 ELSE 0]
                  ELSE layerCallbacks]_vars

C9_Witness ==
    /\ alive
    /\ forwarded = "onMapModelChanged"
    /\ elevationNotices = 1
    /\ redrawCalls = 3
    /\ mapLayers = {"img1"}
    /\ layerCallbacks["img1"][1] = 1
    /\ layerCallbacks["img2"][1] = 0

\* C10: setMap(null) changes nothing that setMap establishes; until a
\* setMap with a map has run, the node is at INIT_NONE with no collaborator
\* built, no proxy registered and no layer subscribed.
C10_SetMapNullNoOp ==
    /\ lastSetMap.map = NULL => ~lastSetMap.changed
    /\ (~crashed /\ lastSetMap.map \in {NONE, NULL} /\ _imageLayerController = 0) =>
           /\ _map = NULL
           /\ _initStage = INIT_NONE
           /\ _terrainInterface = 0
           /\ _textureResourceTracker = 0
           /\ _tileModelFactory = 0
           /\ mapCallbacks = 0
           /\ \A l \in ImageLayers, c \in Controllers : layerCallbacks[l][c] = 0

C10_Witness ==
    /\ lastSetMap.map = NULL
    /\ ~lastSetMap.changed
    /\ _initStage = INIT_NONE
    /\ mapProfile
    /\ mapLayers = {"img1", "img2"}

\* C11: while a createTileModel call iterates the registry no thread holds
\* exclusive access and the registry does not change; no two threads hold
\* exclusive access together. (Two calls iterating together: C11_Witness.)
C11_ReaderWriterExclusion ==
    /\ [](\A r \in Threads :
            rpc[r].pc = "locked" =>
                /\ \A w \in Workers : wpc[w].pc # "fire"
                /\ \A r2 \in Threads \ {r} : rpc[r2].pc # "locked")
    /\ [][(\E w \in Workers : wpc[w].pc = "fire") =>
              _createTileModelCallbacks' = _createTileModelCallbacks]_vars

C11_Witness ==
    /\ wpc["w1"].pc = "fire" /\ wpc["w1"].idx = 1
    /\ wpc["w2"].pc = "fire" /\ wpc["w2"].idx = 2
    /\ readers = Workers
    /\ rpc["r1"].pc = "lock"
    /\ _createTileModelCallbacks = <<"cb1", "cb1">>

\* C12: at no time are two threads inside operations on the same registry:
\* at most one inside addTilePatchCallback / removeTilePatchCallback, and at
\* most one iterating the tile-node registry.
C12_RegistriesMutuallyExclusive ==
    /\ Cardinality({t \in PatchThreads : ppc[t].pc = "access"}) <= 1
    /\ Cardinality({t \in PatchThreads : ppc[t].pc = "iterate"}) <= 1

\* C13: with requestRedraw called from several threads, the outward redraw
\* signals of a cycle differ by at most one from the serial count of the
\* cycle, which is 1 when the cycle holds a requestRedraw call and 0 when it
\* holds none.
C13_AtMostOneOff ==
    LET serial == IF redrawCalls > 0 THEN 1 ELSE 0
    IN redrawSignals - serial \in {-1, 0, 1}

\* C14: once the engine node is destroyed, no image layer, in the map or
\* removed from it earlier, holds a subscription of a controller of that
\* engine, whatever setMap calls and layer changes came before.
C14_TeardownUnsubscribesAll ==
    ~alive => \A l \in ImageLayers, c \in Controllers : layerCallbacks[l][c] = 0

\* C15: a removeTilePatchCallback(cb) on a registry that holds cb, with no
\* other thread using the registry meanwhile, leaves the registry without its
\* entries equal to cb: cb is gone, the size has dropped by the number of
\* entries removed and the other entries keep their count and order.
C15_RemoveErasesEveryOccurrence ==
    [][\A t \in PatchThreads :
        (/\ ppc[t].pc = "access" /\ ppc'[t].pc = "idle"
         /\ ppc[t].op = "remove" /\ ~ppc[t].raced
         /\ ppc[t].cb \in Range(_tilePatchCallbacks))
        => /\ ppc[t].cb \notin Range(_tilePatchCallbacks')
           /\ Len(_tilePatchCallbacks') =
                  Len(_tilePatchCallbacks) - Count(_tilePatchCallbacks, ppc[t].cb)
           /\ _tilePatchCallbacks' =
                  SelectSeq(_tilePatchCallbacks, LAMBDA e : e # ppc[t].cb)]_vars

BlockedBy(t) ==
    IF rpc[t].pc = "lock"
    THEN readers \cup (IF writer = NONE THEN {} ELSE {writer})
    ELSE IF t \in Workers /\ wpc[t].pc = "lock"
    THEN (IF writer = NONE THEN {} ELSE {writer})
    ELSE {}

\* C17: no thread waits for the registry lock on a hold that cannot end:
\* every thread that keeps a waiting thread from the lock is itself able to
\* go on to its release, so no thread waits on its own hold. This covers a
\* callback that registers or removes a callback while createTileModel
\* invokes it.
C17_NoDeadlock ==
    \A t \in Threads : \A h \in BlockedBy(t) :
        /\ h # t
        /\ rpc[h].pc # "lock"

\* C18: no update traversal, createTileModel call or onMapModelChanged with
\* an elevation layer runs before a setMap has created the terrain interface
\* and the tile-model factory: neither is ever used while it is null.
C18_CollaboratorsConstructed ==
    fault \notin {"_terrainInterface", "_tileModelFactory"}

====
